---- MODULE Spec2Model ----
(***************************************************************************)
(* Model of the notebook local-rag-llama-1B.ipynb: the data-ingestion      *)
(* cells (load, chunk, embed, index) and the retrieval / generation /      *)
(* hallucination-grading cells.                                            *)
(*                                                                         *)
(* Texts are sequences of characters (one-character strings).  Every text  *)
(* the splitter handles is a substring of the page, so a piece or a chunk  *)
(* is written as a span <<s, e>>: the characters page[s] .. page[e-1].     *)
(***************************************************************************)
EXTENDS Integers, Sequences, FiniteSets, TLC

VARIABLES
    pages,          \* the page handed to the splitter (one page per document)
    chunk_size,     \* RecursiveCharacterTextSplitter(chunk_size=...)
    chunk_overlap,  \* RecursiveCharacterTextSplitter(chunk_overlap=...)
    text_splitter,  \* "unset", "ok" (constructed) or "ValueError"
    chunks,         \* the chunks: spans of the page in the chunking cell,
                    \* Documents in the cells that index and retrieve them
    hf,             \* the embeddings model: text -> vector
    k,              \* the k handed to similarity_search
    faiss_index,    \* the vector store: the indexed (vector, Document) records
    retriever,      \* faiss_index.as_retriever(...)
    context,        \* result of the retriever cell
    question,       \* the global of the test cells
    docs,           \* the retrieved Documents
    docs_txt,       \* format_docs(docs)
    rag_prompt_formatted,
    generation,     \* the message returned by llm.invoke
    verdict,        \* what the hallucination-evaluator cell printed
    raised,         \* the exception the last executed cell ended with
    pc,             \* the cell to execute next
    calls           \* log of the stage calls made so far

splitVars == <<pages, chunk_size, chunk_overlap, text_splitter>>
indexVars == <<hf, k, faiss_index, retriever, context>>
queryVars == <<question, docs, docs_txt, rag_prompt_formatted, generation, verdict>>
vars == <<splitVars, chunks, indexVars, queryVars, raised, pc, calls>>

\* A Python name that is not bound yet, and a bound one
Unset == <<>>
Val(v) == <<v>>
IsSet(x) == x # <<>>
Get(x) == x[1]

(***************************************************************************)
(* Bounds of the model.                                                    *)
(***************************************************************************)
MaxPageLen == 6
MaxChunkSize == 4
\* largest corpus handed to the index, and largest vector coordinate
MaxChunks == 4
MaxCoord == 1
\* largest number of Documents handed to format_docs on its own
MaxDocs == 3
\* largest corpus of the run of the whole notebook
MaxCorpus == 2

NL == "\n"
SP == " "
\* characters of a page: a letter, and the two whitespace characters the
\* default separators are made of
Alphabet == {"a", SP, NL}
Whitespace == {SP, NL}

Min(a, b) == IF a < b THEN a ELSE b
Max(a, b) == IF a > b THEN a ELSE b

SeqsUpTo(S, n) == UNION {[1..m -> S] : m \in 0..n}

(***************************************************************************)
(* RecursiveCharacterTextSplitter, as constructed in the chunking cell     *)
(* with the library defaults: separators ["\n\n", "\n", " ", ""],          *)
(* keep_separator=True, strip_whitespace=True, length_function=len.        *)
(***************************************************************************)
separators == << <<NL, NL>>, <<NL>>, <<SP>>, <<>> >>

SpanLen(p) == p[2] - p[1]
SpanText(text, p) == SubSeq(text, p[1], p[2] - 1)

\* the separator sep occurs in text at position i, inside the span [i, hi)
MatchAt(text, sep, i, hi) ==
    /\ i + Len(sep) <= hi
    /\ \A j \in 1..Len(sep) : text[i + j - 1] = sep[j]

\* re.search(separator, text) on the span p
re_search(text, sep, p) == \E i \in p[1]..(p[2] - 1) : MatchAt(text, sep, i, p[2])

\* start positions of the leftmost non-overlapping matches of sep (re.split)
RECURSIVE re_matches(_, _, _, _)
re_matches(text, sep, i, hi) ==
    IF i + Len(sep) > hi THEN <<>>
    ELSE IF MatchAt(text, sep, i, hi)
         THEN <<i>> \o re_matches(text, sep, i + Len(sep), hi)
         ELSE re_matches(text, sep, i + 1, hi)

\* _split_text_with_regex(text, separator, keep_separator=True): the text is
\* cut in front of every match, so each separator starts the piece after it;
\* with the empty separator the text is cut into its characters; empty
\* pieces are dropped.
split_text_with_regex(text, sep, p) ==
    IF sep = <<>>
    THEN [j \in 1..SpanLen(p) |-> <<p[1] + j - 1, p[1] + j>>]
    ELSE LET cuts == re_matches(text, sep, p[1], p[2])
             bnds == <<p[1]>> \o cuts \o <<p[2]>>
             all  == [j \in 1..(Len(bnds) - 1) |-> <<bnds[j], bnds[j + 1]>>]
         IN  SelectSeq(all, LAMBDA q : SpanLen(q) > 0)

\* str.strip() on the span p
RECURSIVE lstrip(_, _)
lstrip(text, p) ==
    IF p[1] < p[2] /\ text[p[1]] \in Whitespace
    THEN lstrip(text, <<p[1] + 1, p[2]>>) ELSE p
RECURSIVE rstrip(_, _)
rstrip(text, p) ==
    IF p[1] < p[2] /\ text[p[2] - 1] \in Whitespace
    THEN rstrip(text, <<p[1], p[2] - 1>>) ELSE p
strip(text, p) == rstrip(text, lstrip(text, p))

\* _join_docs that joins all pieces but the last
join_docs_drop_last(text, ds) ==
    IF Len(ds) < 2 THEN <<>>
    ELSE LET t == strip(text, <<ds[1][1], ds[Len(ds) - 1][2]>>)
         IN  IF SpanLen(t) = 0 THEN <<>> ELSE <<t>>

\* _join_docs(docs, separator=""): the pieces are consecutive, so their
\* join is the span from the first to the last; stripped; <<>> stands for
\* None (nothing left after stripping).
join_docs(text, ds) ==
    IF ds = <<>> THEN <<>>
    ELSE LET t == strip(text, <<ds[1][1], ds[Len(ds)][2]>>)
         IN  IF SpanLen(t) = 0 THEN <<>> ELSE <<t>>

\* pop_front with the chunk_overlap test left out: pieces are popped only
\* until the next piece fits
RECURSIVE pop_front_no_overlap(_, _, _, _, _)
pop_front_no_overlap(cur, total, len, size, overlap) ==
    IF total + len > size /\ total > 0
    THEN pop_front_no_overlap(Tail(cur), total - SpanLen(cur[1]), len, size, overlap)
    ELSE <<cur, total>>

\* the while loop of _merge_splits: pieces are popped from the front of
\* current_doc until at most chunk_overlap characters are kept and the next
\* piece (of length len) fits.
RECURSIVE pop_front(_, _, _, _, _)
pop_front(cur, total, len, size, overlap) ==
    IF total > overlap \/ (total + len > size /\ total > 0)
    THEN pop_front(Tail(cur), total - SpanLen(cur[1]), len, size, overlap)
    ELSE <<cur, total>>

\* _merge_splits(splits, separator=""), the loop over the remaining splits
\* with the state (docs = out, current_doc = cur, total)
RECURSIVE merge_loop(_, _, _, _, _, _, _)
merge_loop(text, splits, out, cur, total, size, overlap) ==
    IF splits = <<>> THEN out \o join_docs(text, cur)
    ELSE LET d   == splits[1]
             len == SpanLen(d)
         IN  IF total + len > size /\ Len(cur) > 0
             THEN LET kept == pop_front(cur, total, len, size, overlap)
                  IN  merge_loop(text, Tail(splits), out \o join_docs(text, cur),
                                 Append(kept[1], d), kept[2] + len, size, overlap)
             ELSE merge_loop(text, Tail(splits), out,
                             Append(cur, d), total + len, size, overlap)

merge_splits(text, splits, size, overlap) ==
    merge_loop(text, splits, <<>>, <<>>, 0, size, overlap)

\* index in separators of the separator _split_text picks for the span p:
\* the first of seps (a range of indexes) that is "" or occurs in the text
RECURSIVE pick_separator(_, _, _)
pick_separator(text, p, i) ==
    IF i >= Len(separators) \/ separators[i] = <<>> \/ re_search(text, separators[i], p)
    THEN i ELSE pick_separator(text, p, i + 1)

\* _split_text(text, separators[from..]): pieces shorter than chunk_size are
\* collected in _good_splits and merged; a longer piece flushes them and is
\* split again with the remaining separators (or kept whole when none is
\* left).
RECURSIVE split_text_rec(_, _, _, _, _)
RECURSIVE split_loop(_, _, _, _, _, _, _)
split_loop(text, splits, good, final, next, size, overlap) ==
    LET flushed == IF good = <<>> THEN final
                   ELSE final \o merge_splits(text, good, size, overlap)
    IN  IF splits = <<>> THEN flushed
        ELSE LET s == splits[1]
             IN  IF SpanLen(s) < size
                 THEN split_loop(text, Tail(splits), Append(good, s), final,
                                 next, size, overlap)
                 ELSE split_loop(text, Tail(splits), <<>>,
                                 flushed \o (IF next > Len(separators) THEN <<s>>
                                             ELSE split_text_rec(text, s, next, size, overlap)),
                                 next, size, overlap)

split_text_rec(text, p, from, size, overlap) ==
    LET i    == pick_separator(text, p, from)
        sep  == separators[i]
        \* new_separators: what follows the separator found; nothing after ""
        next == IF sep = <<>> THEN Len(separators) + 1 ELSE i + 1
    IN  split_loop(text, split_text_with_regex(text, sep, p), <<>>, <<>>,
                   next, size, overlap)

\* split_text(text): the chunks of one page, as spans of the page
split_text(text, size, overlap) ==
    split_text_rec(text, <<1, Len(text) + 1>>, 1, size, overlap)

(***************************************************************************)
(* The chunking cell.                                                      *)
(***************************************************************************)
InitSplit ==
    /\ pages \in SeqsUpTo(Alphabet, MaxPageLen)
    /\ chunk_size \in 1..MaxChunkSize
    /\ chunk_overlap \in 0..MaxChunkSize
    /\ text_splitter = "unset"
    /\ chunks = Unset
    /\ hf = Unset /\ k = 0 /\ faiss_index = Unset /\ retriever = Unset
    /\ context = Unset /\ question = Unset /\ docs = Unset /\ docs_txt = Unset
    /\ rag_prompt_formatted = Unset /\ generation = Unset /\ verdict = Unset
    /\ raised = "none" /\ pc = "chunk" /\ calls = <<>>

\* text_splitter = RecursiveCharacterTextSplitter(chunk_size, chunk_overlap):
\* the constructor raises ValueError when chunk_overlap > chunk_size
TextSplitterInit ==
    /\ text_splitter = "unset"
    /\ text_splitter' = IF chunk_overlap > chunk_size THEN "ValueError" ELSE "ok"
    /\ UNCHANGED <<pages, chunk_size, chunk_overlap, chunks>>
    /\ UNCHANGED <<indexVars, queryVars, raised, pc, calls>>

\* chunks = text_splitter.split_documents(pages)
split_documents ==
    /\ text_splitter = "ok"
    /\ chunks = Unset
    /\ chunks' = Val(split_text(pages, chunk_size, chunk_overlap))
    /\ UNCHANGED <<splitVars, indexVars, queryVars, raised, pc, calls>>

NextSplit == TextSplitterInit \/ split_documents

SpecSplit == InitSplit /\ [][NextSplit]_vars

(***************************************************************************)
(* Properties of the chunks of a page.                                     *)
(***************************************************************************)
\* split_documents has returned, for a configuration with
\* chunk_overlap < chunk_size
SplitDone == IsSet(chunks) /\ chunk_overlap < chunk_size
NChunks == Len(Get(chunks))
Chunk(i) == Get(chunks)[i]
\* number of characters of the page that chunk i and chunk i+1 both hold
Overlap(i) == Max(0, Chunk(i)[2] - Chunk(i + 1)[1])

\* the chunk texts concatenated in order, each chunk after the first without
\* its prefix that overlaps the chunk before it
RECURSIVE Reassemble(_)
Reassemble(i) ==
    IF i = 0 THEN <<>>
    ELSE IF i = 1 THEN SpanText(pages, Chunk(1))
    ELSE LET txt == SpanText(pages, Chunk(i))
             ov  == Min(Overlap(i - 1), Len(txt))
         IN  Reassemble(i - 1) \o SubSeq(txt, ov + 1, Len(txt))

NoWhitespace(text) == SelectSeq(text, LAMBDA c : c \notin Whitespace)

\* C6 as stated: every chunk has at most chunk_size characters and every two
\* consecutive chunks, except possibly the last pair of the page, overlap by
\* exactly chunk_overlap characters.
C6_ExactOverlap ==
    SplitDone =>
        /\ \A i \in 1..NChunks : SpanLen(Chunk(i)) <= chunk_size
        /\ \A i \in 1..(NChunks - 2) : Overlap(i) = chunk_overlap

\* C6 amended: every chunk has at most chunk_size characters and two
\* consecutive chunks of a page overlap by at most chunk_overlap characters.
C6_BoundedOverlap ==
    SplitDone =>
        /\ \A i \in 1..NChunks : SpanLen(Chunk(i)) <= chunk_size
        /\ \A i \in 1..(NChunks - 1) : Overlap(i) <= chunk_overlap

\* a page of three chunks or more, cut at a separator: one pair overlaps
\* by chunk_overlap characters, a pair before the last one by fewer
C6_Witness ==
    /\ SplitDone
    /\ NChunks >= 3
    /\ \E i \in 1..(NChunks - 1) : Overlap(i) = chunk_overlap /\ chunk_overlap > 0
    /\ \E i \in 1..(NChunks - 2) : Overlap(i) < chunk_overlap

\* C7 as stated: the chunk texts concatenated in order, without the
\* overlapping prefix of each chunk after the first, are the page text.
C7_RoundTrip == SplitDone => Reassemble(NChunks) = pages

\* C7 amended: the chunks are in page order and their concatenation without
\* the overlapping prefixes is the page text up to whitespace: the only
\* characters split loses are whitespace characters, none is added or
\* reordered; on a page without whitespace the round trip is exact.
C7_RoundTripUpToWhitespace ==
    SplitDone =>
        /\ \A i \in 1..(NChunks - 1) :
              Chunk(i)[1] <= Chunk(i + 1)[1] /\ Chunk(i)[2] <= Chunk(i + 1)[2]
        /\ NoWhitespace(Reassemble(NChunks)) = NoWhitespace(pages)
        /\ (NoWhitespace(pages) = pages => Reassemble(NChunks) = pages)

\* a page of several chunks whose reassembly lost whitespace
C7_Witness ==
    /\ SplitDone
    /\ NChunks >= 2
    /\ Reassemble(NChunks) # pages
    /\ \E i \in 1..(NChunks - 1) : Overlap(i) > 0

(***************************************************************************)
(* Texts of the retrieval cells are sequences of words.  A Document is a   *)
(* page_content with its metadata.                                         *)
(***************************************************************************)
ChunkWords == <<"c1", "c2", "c3", "c4", "c5", "c6", "c7", "c8">>
Document(i) == [page_content |-> <<ChunkWords[i]>>, metadata |-> [page |-> i]]

\* the question literals of the cells
QuestionOf(cell) ==
    CASE cell = "index"     -> <<"Full form of RAG">>
      [] cell = "retriever" -> <<"What is RAG?">>
      [] cell = "test1"     -> <<"Full form of RAG?">>
      [] cell = "test2"     -> <<"What are the different types of chunking strategies?">>
      [] cell = "test3"     -> <<"What is RAG?">>

QueryCells == {"index", "retriever", "test1", "test2", "test3"}
AllTexts == {Document(i).page_content : i \in 1..Len(ChunkWords)}
                \cup {QuestionOf(c) : c \in QueryCells}

\* k of similarity_search(..., k=5) and of search_kwargs={"k": 5}
K == 5

\* hf: the embeddings model is a fixed function from texts to vectors; a
\* vector is a point 0..MaxCoord.  Embedders(free) are the models that may
\* differ on the texts in free.
Embedders(free) ==
    {[t \in AllTexts |-> IF t \in free THEN g[t] ELSE 0] : g \in [free -> 0..MaxCoord]}

(***************************************************************************)
(* FAISS.from_documents and similarity_search (IndexFlatL2).               *)
(***************************************************************************)
\* squared L2 distance of IndexFlatL2
L2(a, b) == (a - b) * (a - b)

\* FAISS.from_documents(chunks, hf) on the embeddings of the chunks: the
\* index holds one (vector, Document) record per chunk, in the order of the
\* chunks.  It cannot be built from no chunk: the dimension is read from
\* embeddings[0], which raises IndexError.
from_documents(documents, embeddings) ==
    IF documents = <<>> THEN [error |-> "IndexError", index |-> <<>>]
    ELSE [error |-> "none",
          index |-> [i \in 1..Len(documents) |->
                        [vector |-> embeddings[documents[i].page_content],
                         doc |-> documents[i]]]]

\* the orders in which the m nearest of the records in ids can come back:
\* by non-decreasing distance; the order among records at the same distance
\* is left to FAISS
RECURSIVE nearest(_, _, _, _)
nearest(index, qv, ids, m) ==
    IF m = 0 \/ ids = {} THEN {<<>>}
    ELSE LET best == {i \in ids : \A j \in ids :
                         L2(index[i].vector, qv) <= L2(index[j].vector, qv)}
         IN  UNION {{<<i>> \o rest : rest \in nearest(index, qv, ids \ {i}, m - 1)}
                    : i \in best}

\* index.search(vector, k): k labels, -1 where the index has fewer records
index_search(index, qv, kk) ==
    {lab \o [i \in 1..(kk - Len(lab)) |-> -1]
        : lab \in nearest(index, qv, 1..Len(index), kk)}

\* similarity_search with the -1 labels turned into empty Documents
similarity_search_padded(index, qv, kk) ==
    {[i \in 1..Len(lab) |->
         IF lab[i] = -1 THEN [page_content |-> <<>>, metadata |-> [page |-> 0]]
         ELSE index[lab[i]].doc]
        : lab \in index_search(index, qv, kk)}

\* similarity_search_with_score_by_vector: the Documents of the labels, the
\* -1 labels skipped
similarity_search(index, qv, kk) ==
    {LET found == SelectSeq(lab, LAMBDA i : i # -1)
     IN  [i \in 1..Len(found) |-> index[found[i]].doc]
        : lab \in index_search(index, qv, kk)}

(***************************************************************************)
(* Execution of the cells.  The cells run in notebook order.  A cell that  *)
(* raises ends at the raising statement and keeps the names it has bound   *)
(* so far; the kernel then either skips the remaining cells (Run All) or   *)
(* goes on with the next cell (cells run one by one).                      *)
(***************************************************************************)
\* the order of the cells with a jump back from the grading cell to Test 3
NextCell_retry(cell) ==
    CASE cell = "index"     -> "retriever"
      [] cell = "retriever" -> "test1"
      [] cell = "test1"     -> "test2"
      [] cell = "test2"     -> "test3"
      [] cell = "test3"     -> "grade"
      [] cell = "grade"     -> "test3"

NextCell(cell) ==
    CASE cell = "index"     -> "retriever"
      [] cell = "retriever" -> "test1"
      [] cell = "test1"     -> "test2"
      [] cell = "test2"     -> "test3"
      [] cell = "test3"     -> "grade"
      [] cell = "grade"     -> "done"

Raise(err) == raised' = err /\ pc' \in {NextCell(pc), "stopped"}
Finish == raised' = "none" /\ pc' = NextCell(pc)

\* the query a cell belongs to: the grading cell grades the Test 3 query
QueryOf(cell) == IF cell = "grade" THEN "test3" ELSE cell
Call(stage, ok) == [query |-> QueryOf(pc), stage |-> stage, ok |-> ok]

\* the cell that builds the index and searches it once
IndexCell ==
    /\ pc = "index"
    /\ LET built == from_documents(Get(chunks), Get(hf)) IN
       \/ /\ built.error # "none"
          /\ Raise(built.error)
          /\ UNCHANGED <<faiss_index, docs, calls>>
       \/ \* hf.embed_documents raises
          /\ Get(chunks) # <<>>
          /\ Raise("UpstreamError")
          /\ UNCHANGED <<faiss_index, docs, calls>>
       \/ \* the index is built; hf.embed_query raises in similarity_search
          /\ built.error = "none"
          /\ faiss_index' = Val(built.index)
          /\ calls' = Append(calls, Call("retrieve", FALSE))
          /\ Raise("UpstreamError")
          /\ UNCHANGED docs
       \/ /\ built.error = "none"
          /\ faiss_index' = Val(built.index)
          /\ \E r \in similarity_search(built.index, Get(hf)[QuestionOf(pc)], k) :
                docs' = Val(r)
          /\ calls' = Append(calls, Call("retrieve", TRUE))
          /\ Finish
    /\ UNCHANGED <<splitVars, chunks, hf, k, retriever, context>>
    /\ UNCHANGED <<question, docs_txt, rag_prompt_formatted, generation, verdict>>

\* retriever = faiss_index.as_retriever(...); context = retriever.invoke(...)
RetrieverCell ==
    /\ pc = "retriever"
    /\ \/ /\ ~IsSet(faiss_index)
          /\ Raise("NameError")
          /\ UNCHANGED <<retriever, context, calls>>
       \/ /\ IsSet(faiss_index)
          /\ retriever' = Val([search_type |-> "similarity", k |-> k])
          /\ calls' = Append(calls, Call("retrieve", FALSE))
          /\ Raise("UpstreamError")
          /\ UNCHANGED context
       \/ /\ IsSet(faiss_index)
          /\ retriever' = Val([search_type |-> "similarity", k |-> k])
          /\ calls' = Append(calls, Call("retrieve", TRUE))
          /\ \E r \in similarity_search(Get(faiss_index), Get(hf)[QuestionOf(pc)], k) :
                /\ context' = Val(r)
                \* print(context[0].page_content)
                /\ IF r = <<>> THEN Raise("IndexError") ELSE Finish
    /\ UNCHANGED <<splitVars, chunks, hf, k, faiss_index, queryVars>>

\* the inputs of the index: a corpus of up to MaxChunks chunks, an
\* embeddings model and the k of the searches
InitIndex ==
    /\ \E n \in 0..MaxChunks :
          /\ chunks = Val([i \in 1..n |-> Document(i)])
          /\ hf \in {Val(f) : f \in Embedders({Document(i).page_content : i \in 1..n}
                        \cup {QuestionOf("index"), QuestionOf("retriever")})}
    /\ k \in 1..K
    /\ pages = <<>> /\ chunk_size = 0 /\ chunk_overlap = 0 /\ text_splitter = "ok"
    /\ faiss_index = Unset /\ retriever = Unset
    /\ context = Unset /\ question = Unset /\ docs = Unset /\ docs_txt = Unset
    /\ rag_prompt_formatted = Unset /\ generation = Unset /\ verdict = Unset
    /\ raised = "none" /\ pc = "index" /\ calls = <<>>

NextIndex == IndexCell \/ RetrieverCell

SpecIndex == InitIndex /\ [][NextIndex]_vars

BlankLine == "\n\n"
RefusalString == "Sorry, answer not found in the context provided"

\* the template, cut at its two replacement fields and around the refusal
\* string
rag_prompt ==
    << "You are an assistant for question-answering tasks. \n\nHere is the context to use to answer the question:\n\n",
       "{context}",
       " \n\nThink carefully about the above context. \n\nNow, review the user question:\n\n",
       "{question}",
       "\n\nProvide an answer to this questions using only the above context. \n\nUse five sentences maximum and keep the answer concise.\nIf you don't know the answer simply say \"",
       RefusalString,
       "\".\nDO NOT use your existing knowledge, only provide answer based on the context provided. \n\nAnswer:" >>

\* "\n".join(...): the page contents with a single newline between them
RECURSIVE format_docs_newline(_)
format_docs_newline(ds) ==
    IF ds = <<>> THEN <<>>
    ELSE IF Len(ds) = 1 THEN ds[1].page_content
    ELSE ds[1].page_content \o <<NL>> \o format_docs_newline(Tail(ds))

\* format_docs(docs): "\n\n".join(doc.page_content for doc in docs)
RECURSIVE format_docs(_)
format_docs(ds) ==
    IF ds = <<>> THEN <<>>
    ELSE IF Len(ds) = 1 THEN ds[1].page_content
    ELSE ds[1].page_content \o <<BlankLine>> \o format_docs(Tail(ds))

\* template.format(context=ctx, question=q): every field of the template is
\* replaced in one pass; the replacement texts are not scanned again
RECURSIVE str_format(_, _, _)
str_format(template, ctx, q) ==
    IF template = <<>> THEN <<>>
    ELSE (CASE template[1] = "{context}"  -> ctx
            [] template[1] = "{question}" -> q
            [] OTHER -> <<template[1]>>) \o str_format(Tail(template), ctx, q)

\* page contents of the Documents formatted on their own
RenderTexts == {<<"x">>, <<"y", "z">>, <<"{question}">>}

InitRender ==
    /\ docs \in {Val([i \in 1..Len(c) |->
                        [page_content |-> c[i], metadata |-> [page |-> i]]])
                    : c \in SeqsUpTo(RenderTexts, MaxDocs)}
    /\ question \in {Val(QuestionOf(c)) : c \in {"test1", "test2", "test3"}}
    /\ pages = <<>> /\ chunk_size = 0 /\ chunk_overlap = 0 /\ text_splitter = "ok"
    /\ chunks = Unset /\ hf = Unset /\ k = K /\ faiss_index = Unset
    /\ retriever = Unset /\ context = Unset /\ docs_txt = Unset
    /\ rag_prompt_formatted = Unset /\ generation = Unset /\ verdict = Unset
    /\ raised = "none" /\ pc = "render" /\ calls = <<>>

\* docs_txt = format_docs(docs)
FormatDocs ==
    /\ pc = "render"
    /\ ~IsSet(docs_txt)
    /\ docs_txt' = Val(format_docs(Get(docs)))
    /\ UNCHANGED <<splitVars, chunks, indexVars, question, docs,
                   rag_prompt_formatted, generation, verdict, raised, pc, calls>>

\* rag_prompt_formatted = rag_prompt.format(context=docs_txt, question=question)
FormatPrompt ==
    /\ pc = "render"
    /\ IsSet(docs_txt)
    /\ ~IsSet(rag_prompt_formatted)
    /\ rag_prompt_formatted' = Val(str_format(rag_prompt, Get(docs_txt), Get(question)))
    /\ UNCHANGED <<splitVars, chunks, indexVars, question, docs, docs_txt,
                   generation, verdict, raised, pc, calls>>

NextRender == FormatDocs \/ FormatPrompt

SpecRender == InitRender /\ [][NextRender]_vars

\* where the text of Document i starts in the joined context (0-based)
RECURSIVE ContextOffset(_, _)
ContextOffset(ds, i) ==
    IF i = 1 THEN 0 ELSE ContextOffset(ds, i - 1) + Len(ds[i - 1].page_content) + 1

\* C8: the rendered prompt is the template with {context} replaced by the
\* chunk texts in retrieval order, one blank line between two consecutive
\* chunks, and {question} replaced by the question; it holds every chunk
\* text, the question and the refusal string verbatim.
C8_Rendered ==
    IsSet(rag_prompt_formatted) =>
        LET P   == Get(rag_prompt_formatted)
            ds  == Get(docs)
            q   == Get(question)
            n   == Len(ds)
            len == IF n = 0 THEN 0
                   ELSE ContextOffset(ds, n) + Len(ds[n].page_content)
        IN  /\ Len(P) = 1 + len + 1 + Len(q) + 3
            /\ P[1] = rag_prompt[1]
            /\ \A i \in 1..n :
                  /\ SubSeq(P, 2 + ContextOffset(ds, i),
                            1 + ContextOffset(ds, i) + Len(ds[i].page_content))
                        = ds[i].page_content
                  /\ i > 1 => P[1 + ContextOffset(ds, i)] = BlankLine
            /\ P[2 + len] = rag_prompt[3]
            /\ SubSeq(P, 3 + len, 2 + len + Len(q)) = q
            /\ SubSeq(P, 3 + len + Len(q), Len(P)) = SubSeq(rag_prompt, 5, 7)
            /\ P[Len(P) - 1] = "Sorry, answer not found in the context provided"

\* a prompt rendered from three chunks, one of them holding the text of a
\* replacement field
C8_Witness ==
    /\ IsSet(rag_prompt_formatted)
    /\ Len(Get(docs)) = 3
    /\ \E i \in 1..3 : Get(docs)[i].page_content = <<"{question}">>
    /\ Get(docs)[1].page_content # Get(docs)[2].page_content

(***************************************************************************)
(* json.loads on the content of the grader's reply.  The reply is a        *)
(* sequence of JSON tokens: punctuation, string literals (written with     *)
(* their quotes), numbers, and words that are no JSON.                     *)
(***************************************************************************)
StringLiterals ==
    {"\"binary_score\"", "\"explanation\"", "\"yes\"", "\"no\"", "\"maybe\"",
     "\"grounded in the facts\""}
NumberLiterals == {"1"}

\* the Python value of a string literal or a number
Decode(tok) ==
    IF tok \in NumberLiterals THEN [type |-> "int", v |-> tok]
    ELSE [type |-> "str",
          v |-> CASE tok = "\"binary_score\"" -> "binary_score"
                  [] tok = "\"explanation\""  -> "explanation"
                  [] tok = "\"yes\""          -> "yes"
                  [] tok = "\"no\""           -> "no"
                  [] tok = "\"maybe\""        -> "maybe"
                  [] OTHER                    -> "grounded in the facts"]

IsScalar(tok) == tok \in StringLiterals \cup NumberLiterals

\* the members key : value , key : value ... between the braces, read from
\* the left into the dict built so far (a repeated key keeps the last
\* value); <<FALSE, _>> when the tokens are no member list
RECURSIVE parse_members(_, _)
parse_members(toks, dict) ==
    IF Len(toks) < 3 \/ toks[1] \notin StringLiterals \/ toks[2] # ":"
                     \/ ~IsScalar(toks[3])
    THEN <<FALSE, dict>>
    ELSE LET key  == Decode(toks[1]).v
             more == [x \in DOMAIN dict \cup {key} |->
                         IF x = key THEN Decode(toks[3]) ELSE dict[x]]
         IN  IF Len(toks) = 3 THEN <<TRUE, more>>
             ELSE IF toks[4] # "," THEN <<FALSE, dict>>
             ELSE parse_members(SubSeq(toks, 5, Len(toks)), more)

EmptyDict == [x \in {} |-> [type |-> "int", v |-> "1"]]

\* json.loads(content): the Python value, or JSONDecodeError
json_loads(toks) ==
    IF Len(toks) = 1 /\ IsScalar(toks[1])
    THEN [error |-> "none", value |-> Decode(toks[1])]
    ELSE IF Len(toks) >= 2 /\ toks[1] = "{" /\ toks[Len(toks)] = "}"
    THEN IF Len(toks) = 2
         THEN [error |-> "none", value |-> [type |-> "dict", v |-> EmptyDict]]
         ELSE LET r == parse_members(SubSeq(toks, 2, Len(toks) - 1), EmptyDict)
              IN  IF r[1] THEN [error |-> "none",
                                value |-> [type |-> "dict", v |-> r[2]]]
                  ELSE [error |-> "JSONDecodeError", value |-> <<>>]
    ELSE [error |-> "JSONDecodeError", value |-> <<>>]

\* the replies of the grader model: objects with or without each of the two
\* keys, cut-off objects, a bare string, prose, nothing
Member(key, val) == IF val = "" THEN <<>> ELSE <<<<key, ":", val>>>>
RECURSIVE JoinMembers(_)
JoinMembers(ms) ==
    IF ms = <<>> THEN <<>>
    ELSE IF Len(ms) = 1 THEN ms[1]
    ELSE ms[1] \o <<",">> \o JoinMembers(Tail(ms))
ObjectReplies ==
    {<<"{">> \o JoinMembers(Member("\"binary_score\"", b) \o Member("\"explanation\"", e))
        \o <<"}">>
        : b \in {"", "\"yes\"", "\"no\"", "\"maybe\"", "1"},
          e \in {"", "\"grounded in the facts\"", "1"}}
Responses ==
    ObjectReplies
        \cup {SubSeq(r, 1, Len(r) - 1) : r \in ObjectReplies}
        \cup {<<"\"no\"">>, <<"The", "answer", "is", "grounded">>, <<>>,
              <<"{", "\"binary_score\"", ":", "\"yes\"", ",",
                "\"binary_score\"", ":", "\"no\"", "}">>}

\* what llm.invoke can answer
Answers == {<<"RAG stands for Retrieval-Augmented Generation.">>, <<RefusalString>>}

(***************************************************************************)
(* The test cells and the hallucination-evaluator cell.                    *)
(***************************************************************************)
\* question = ...; docs = retriever.invoke(question); docs_txt = ...;
\* rag_prompt_formatted = ...; generation = llm.invoke(...)
TestQuery(cell) ==
    /\ pc = cell
    /\ question' = Val(QuestionOf(cell))
    /\ \/ /\ ~IsSet(retriever)
          /\ Raise("NameError")
          /\ UNCHANGED <<docs, docs_txt, rag_prompt_formatted, generation, calls>>
       \/ \* hf.embed_query raises in retriever.invoke
          /\ IsSet(retriever)
          /\ calls' = Append(calls, Call("retrieve", FALSE))
          /\ Raise("UpstreamError")
          /\ UNCHANGED <<docs, docs_txt, rag_prompt_formatted, generation>>
       \/ /\ IsSet(retriever)
          /\ \E r \in similarity_search(Get(faiss_index), Get(hf)[QuestionOf(cell)],
                                        Get(retriever).k) :
                /\ docs' = Val(r)
                /\ docs_txt' = Val(format_docs(r))
                /\ rag_prompt_formatted' =
                      Val(str_format(rag_prompt, format_docs(r), QuestionOf(cell)))
          /\ \/ \* llm.invoke raises
                /\ calls' = calls \o <<Call("retrieve", TRUE), Call("render", TRUE),
                                       Call("generate", FALSE)>>
                /\ Raise("UpstreamError")
                /\ UNCHANGED generation
             \/ /\ \E a \in Answers : generation' = Val([content |-> a])
                /\ calls' = calls \o <<Call("retrieve", TRUE), Call("render", TRUE),
                                       Call("generate", TRUE)>>
                /\ Finish

\* a test cell that also adds its question to the index
TestCell_add(cell) ==
    /\ TestQuery(cell)
    /\ faiss_index' =
          IF IsSet(faiss_index)
          THEN Val(Append(Get(faiss_index),
                          [vector |-> Get(hf)[QuestionOf(cell)],
                           doc |-> [page_content |-> QuestionOf(cell),
                                    metadata |-> [page |-> 0]]]))
          ELSE faiss_index
    /\ UNCHANGED <<splitVars, chunks, hf, k, retriever, context, verdict>>

TestCell(cell) ==
    /\ TestQuery(cell)
    /\ UNCHANGED <<splitVars, chunks, indexVars, verdict>>

\* pprint.pp(halluncination_evaluator(generation, docs_txt))
HallucinationCell ==
    /\ pc = "grade"
    /\ \/ /\ ~(IsSet(generation) /\ IsSet(docs_txt))
          /\ Raise("NameError")
          /\ UNCHANGED <<verdict, calls>>
       \/ \* llm_json_mode.invoke raises
          /\ IsSet(generation) /\ IsSet(docs_txt)
          /\ calls' = Append(calls, Call("grade", FALSE))
          /\ Raise("UpstreamError")
          /\ UNCHANGED verdict
       \/ /\ IsSet(generation) /\ IsSet(docs_txt)
          /\ \E content \in Responses :
                LET result == json_loads(content) IN
                IF result.error = "none"
                THEN /\ verdict' = Val(result.value)
                     /\ calls' = Append(calls, Call("grade", TRUE))
                     /\ Finish
                ELSE /\ calls' = Append(calls, Call("grade", FALSE))
                     /\ Raise(result.error)
                     /\ UNCHANGED verdict
    /\ UNCHANGED <<splitVars, chunks, indexVars>>
    /\ UNCHANGED <<question, docs, docs_txt, rag_prompt_formatted, generation>>

\* the notebook from the index cell on: a corpus of up to MaxCorpus chunks
\* and an embeddings model; k is the 5 of the cells
Init ==
    /\ \E n \in 0..MaxCorpus :
          /\ chunks = Val([i \in 1..n |-> Document(i)])
          /\ hf \in {Val(f) : f \in Embedders({Document(i).page_content : i \in 1..n})}
    /\ k = K
    /\ pages = <<>> /\ chunk_size = 0 /\ chunk_overlap = 0 /\ text_splitter = "ok"
    /\ faiss_index = Unset /\ retriever = Unset
    /\ context = Unset /\ question = Unset /\ docs = Unset /\ docs_txt = Unset
    /\ rag_prompt_formatted = Unset /\ generation = Unset /\ verdict = Unset
    /\ raised = "none" /\ pc = "index" /\ calls = <<>>

Next ==
    \/ IndexCell
    \/ RetrieverCell
    \/ \E cell \in {"test1", "test2", "test3"} : TestCell(cell)
    \/ HallucinationCell

Spec == Init /\ [][Next]_vars

(***************************************************************************)
(* Properties of a run of the notebook.                                    *)
(***************************************************************************)
\* a grading verdict: both keys, binary_score "yes" or "no", explanation a
\* text
IsVerdict(val) ==
    /\ val.type = "dict"
    /\ {"binary_score", "explanation"} \subseteq DOMAIN val.v
    /\ val.v["binary_score"].type = "str"
    /\ val.v["binary_score"].v \in {"yes", "no"}
    /\ val.v["explanation"].type = "str"

\* C1: the evaluator returns a value only when the reply of the model parses
\* as an object with both keys, binary_score "yes" or "no" and explanation a
\* text; every other reply makes it fail.
C1_OnlyVerdicts == IsSet(verdict) => IsVerdict(Get(verdict))

StageRank(stage) ==
    CASE stage = "retrieve" -> 1
      [] stage = "render"   -> 2
      [] stage = "generate" -> 3
      [] stage = "grade"    -> 4

\* C2: the stage calls of one query come in the order retrieve, render,
\* generate, grade, each at most once, whatever the verdict and whatever
\* failed.
C2_StagesOnceInOrder ==
    \A i, j \in DOMAIN calls :
        (i < j /\ calls[i].query = calls[j].query)
            => StageRank(calls[i].stage) < StageRank(calls[j].stage)

\* the notebook ran to its end and the grader said "no" about Test 3
C2_Witness ==
    /\ pc = "done"
    /\ IsSet(verdict) /\ IsVerdict(Get(verdict))
    /\ Get(verdict).v["binary_score"].v = "no"
    /\ \E i \in DOMAIN calls : calls[i] = [query |-> "test3", stage |-> "grade", ok |-> TRUE]
    /\ \E i \in DOMAIN calls : calls[i].query = "test1" /\ ~calls[i].ok

\* the Test 3 query is answered when the evaluator cell has printed a
\* verdict
Answered == IsSet(verdict)
Succeeded(query, stage) ==
    \E i \in DOMAIN calls : calls[i] = [query |-> query, stage |-> stage, ok |-> TRUE]
RaisedIn(query) == \E i \in DOMAIN calls : calls[i].query = query /\ ~calls[i].ok

\* C3: the Test 3 query ends answered only when its retrieve, generate and
\* grade calls all returned, never when one of its calls raised, and at the
\* end of the notebook it is answered or failed.
C3_AnsweredOrFailed ==
    /\ Answered => \A stage \in {"retrieve", "generate", "grade"} :
                       Succeeded("test3", stage)
    /\ RaisedIn("test3") => ~Answered
    /\ pc = "done" => (Answered \/ raised # "none")

\* the index records are the chunks, in order
IndexBuilt ==
    /\ IsSet(faiss_index)
    /\ Len(Get(faiss_index)) = Len(Get(chunks))
    /\ \A i \in 1..Len(Get(chunks)) : Get(faiss_index)[i].doc = Get(chunks)[i]

\* C9: once built, the index never changes, whatever the later cells do and
\* whether they fail or not; and no search runs before the index is built
\* from all the chunks.
C9_ReadOnlyIndex ==
    /\ [][IsSet(faiss_index) => faiss_index' = faiss_index]_vars
    /\ [](calls # <<>> => IndexBuilt)

\* the notebook ran to its end over a built index, with a failed call and a
\* graded answer on the way
C9_Witness ==
    /\ pc = "done"
    /\ IndexBuilt
    /\ \E i \in DOMAIN calls : ~calls[i].ok
    /\ Succeeded("test3", "generate")
    /\ IsSet(verdict)

\* the query of the last call of the stage that returned before call i
RECURSIVE LastQuery(_, _)
LastQuery(i, stage) ==
    IF i = 0 THEN "none"
    ELSE IF calls[i].stage = stage /\ calls[i].ok THEN calls[i].query
    ELSE LastQuery(i - 1, stage)

\* C10: whenever the grader is called, the context (docs_txt) and the answer
\* (generation) it is given come from the same question.
C10_SameQuestion ==
    \A i \in DOMAIN calls :
        calls[i].stage = "grade" => LastQuery(i, "render") = LastQuery(i, "generate")

====
